---- MODULE Spec2Model ----
(***************************************************************************)
(* Model of packages/gatsby/src/utils/websocket-manager.js: the            *)
(* WebsocketManager singleton that keeps page and static query results in  *)
(* memory and pushes them to the development clients over socket.io.       *)
(*                                                                         *)
(* Every handler of the source is one action.  The socket.io server is     *)
(* modelled by what the calls made in the source do: io.send broadcasts    *)
(* to every connected socket, s.join / s.leave edit the adapter's rooms,   *)
(* and a closing socket leaves all its rooms before its `disconnect`       *)
(* listeners run.  The redux store (pages, staticQueryComponents,          *)
(* jsonDataPaths) and the files under public/static/d are the environment: *)
(* each page path and each static query hash has a fixed status, chosen    *)
(* in Init.                                                                *)
(***************************************************************************)
EXTENDS Integers, Sequences, FiniteSets

\* ------------------------------------------------------------------ bounds
NumConns == 2
NumPaths == 2
NumHashes == 1
NumResults == 1

Conns == 1..NumConns
Paths == 1..NumPaths
Hashes == 1..NumHashes
\* results computed by the query runner; the content of a data file is
\* CachedResult, which differs from every freshly computed result
FreshResults == 1..NumResults
CachedResult == 0

VARIABLES
  isInitialised,      \* this.isInitialised
  activePaths,        \* this.activePaths : Set<string>
  pageResults,        \* this.pageResults : Map, as the sequence of its entries
  staticQueryResults, \* this.staticQueryResults : Map, likewise
  connState,          \* per socket: "new", "connected", "disconnected"
  activePath,         \* per socket: the closure variable `activePath`
  rooms,              \* websocket.sockets.adapter.rooms, by path
  pageStatus,         \* environment: what the store and disk hold for a page path
  queryStatus,        \* environment: the same for a static query hash
  lastOp,             \* the handler that ran last and whether it threw
  sends,              \* the websocket.send calls of the last handler, in order
  delivered,          \* what each socket received from the last handler
  fileReads,          \* the readCachedResults calls of the last handler
  logged,             \* number of console.log calls of the last handler
  reading             \* the registerPath handler that is inside fs.readFileSync

vars == <<isInitialised, activePaths, pageResults, staticQueryResults, connState,
          activePath, rooms, pageStatus, queryStatus, lastOp, sends, delivered,
          fileReads, logged, reading>>

\* ------------------------------------------------------------------ values
Null == 0
\* the JavaScript value `undefined`, as a Map value or a message payload
Undefined == [undefined |-> TRUE]

QueryResult(id, result) == [id |-> id, result |-> result]

\* no handler is inside fs.readFileSync
NotReading == [conn |-> Null, path |-> Null]

\* a page path is unknown to `pages` ("nopage"), known but without an entry
\* in jsonDataPaths ("nodata"), has a data path whose file is missing or
\* unparsable ("nofile"), or has a readable data file ("ok")
PageStatuses == {"nopage", "nodata", "nofile", "ok"}
\* a hash has no static query component ("none"), or a component whose
\* data path is missing ("nodata"), unreadable ("nofile") or readable ("ok")
QueryStatuses == {"none", "nodata", "nofile", "ok"}

\* ------------------------------------------------------------------ Map
MapHas(m, k) == \E i \in 1..Len(m) : m[i].key = k

MapIndex(m, k) == CHOOSE i \in 1..Len(m) : m[i].key = k

MapGet(m, k) == IF MapHas(m, k) THEN m[MapIndex(m, k)].value ELSE Undefined

MapSet(m, k, v) ==
  IF MapHas(m, k)
    THEN [m EXCEPT ![MapIndex(m, k)] = [key |-> k, value |-> v]]
    ELSE Append(m, [key |-> k, value |-> v])

MapKeys(m) == {m[i].key : i \in 1..Len(m)}

\* the values in iteration (insertion) order, as Map.prototype.forEach visits them
MapValues(m) == [i \in 1..Len(m) |-> m[i].value]

\* ------------------------------------------------------------------ messages
Message(type, payload) == [type |-> type, payload |-> payload]

RECURSIVE MessagesOf(_, _)
MessagesOf(type, values) ==
  IF values = <<>> THEN <<>>
  ELSE <<Message(type, Head(values))>> \o MessagesOf(type, Tail(values))

\* a send that reaches one socket only
BroadcastToOne(msgs, connected) ==
  [c \in Conns |-> IF c \in connected /\ \A d \in connected : c <= d
                     THEN msgs ELSE <<>>]

\* this.websocket.send(msg) on the socket.io server: every message of the
\* handler reaches every socket connected while the handler runs
Broadcast(msgs, connected) ==
  [c \in Conns |-> IF c \in connected THEN msgs ELSE <<>>]

Connected == {c \in Conns : connState[c] = "connected"}

\* ------------------------------------------------------------------ loaders
\* readCachedResults: JSON.parse(fs.readFileSync(...)) returns the file's
\* content or throws
readCachedResults(status) ==
  IF status = "ok" THEN [threw |-> FALSE, value |-> CachedResult]
                   ELSE [threw |-> TRUE, value |-> CachedResult]

\* a getCachedPageData that reads the file and forgets to return the entry
getCachedPageDataNoReturn(pagePath, status) ==
  IF status = "nopage"
    THEN [threw |-> TRUE, value |-> Undefined, reads |-> <<>>, logs |-> 0]
  ELSE IF status = "nodata"
    THEN [threw |-> FALSE, value |-> Undefined, reads |-> <<>>, logs |-> 1]
  ELSE [threw |-> readCachedResults(status).threw,
        value |-> Undefined,
        reads |-> <<[kind |-> "page", id |-> pagePath]>>,
        logs |-> 0]

\* getCachedPageData(pagePath): the value returned (or the throw), the files
\* read and the number of lines logged
getCachedPageData(pagePath, status) ==
  IF status = "nopage"
    THEN \* pages.get(pagePath) is undefined: page.jsonName throws a TypeError
         [threw |-> TRUE, value |-> Undefined, reads |-> <<>>, logs |-> 0]
  ELSE IF status = "nodata"
    THEN [threw |-> FALSE, value |-> Undefined, reads |-> <<>>, logs |-> 1]
  ELSE LET r == readCachedResults(status) IN
       [threw |-> r.threw,
        value |-> IF r.threw THEN Undefined ELSE QueryResult(pagePath, r.value),
        reads |-> <<[kind |-> "page", id |-> pagePath]>>,
        logs |-> 0]

\* getCachedStaticQueryResults: staticQueryComponents.forEach over the hashes
\* h..NumHashes, acc being the work done so far; a throw ends the loop
RECURSIVE CachedStaticFrom(_, _, _, _)
CachedStaticFrom(h, resultsMap, status, acc) ==
  IF h > NumHashes \/ acc.threw THEN acc
  ELSE IF status[h] = "none" \/ MapHas(resultsMap, h)
    THEN CachedStaticFrom(h + 1, resultsMap, status, acc)
  ELSE IF status[h] = "nodata"
    THEN CachedStaticFrom(h + 1, resultsMap, status,
                          [acc EXCEPT !.logs = @ + 1])
  ELSE LET r == readCachedResults(status[h])
           read == Append(acc.reads, [kind |-> "static", id |-> h])
       IN CachedStaticFrom(h + 1, resultsMap, status,
            IF r.threw
              THEN [acc EXCEPT !.threw = TRUE, !.reads = read]
              ELSE [acc EXCEPT !.reads = read,
                               !.value = MapSet(@, h, QueryResult(h, r.value))])

\* a loader that reads every component's file, whatever resultsMap holds
getCachedStaticIgnoringResults(resultsMap, status) ==
  CachedStaticFrom(1, <<>>, status,
                   [threw |-> FALSE, value |-> <<>>, reads |-> <<>>, logs |-> 0])

getCachedStaticQueryResults(resultsMap, status) ==
  CachedStaticFrom(1, resultsMap, status,
                   [threw |-> FALSE, value |-> <<>>, reads |-> <<>>, logs |-> 0])

\* a merge that keeps the loaded entries only
MapMergeReplaces(a, b) == b

\* new Map([...a, ...b]): the entries of a, then those of b, a later entry
\* replacing an earlier one with the same key
RECURSIVE MapMerge(_, _)
MapMerge(a, b) ==
  IF b = <<>> THEN a
  ELSE MapMerge(MapSet(a, Head(b).key, Head(b).value), Tail(b))

\* ------------------------------------------------------------------ handlers
NoOp == [op |-> "none", conn |-> 0, id |-> 0, result |-> 0, threw |-> FALSE]

Op(name, c, id, result, threw) ==
  [op |-> name, conn |-> c, id |-> id, result |-> result, threw |-> threw]

Init ==
  /\ isInitialised = FALSE
  /\ activePaths = {}
  /\ pageResults = <<>>
  /\ staticQueryResults = <<>>
  /\ connState = [c \in Conns |-> "new"]
  /\ activePath = [c \in Conns |-> Null]
  /\ rooms = [p \in Paths |-> {}]
  /\ pageStatus \in [Paths -> PageStatuses]
  /\ queryStatus \in [Hashes -> QueryStatuses]
  /\ lastOp = NoOp
  /\ sends = <<>>
  /\ delivered = [c \in Conns |-> <<>>]
  /\ fileReads = <<>>
  /\ logged = 0
  /\ reading = NotReading

\* init({ server, directory }), called once by the development server
init ==
  /\ ~isInitialised
  /\ LET cached == getCachedStaticQueryResults(staticQueryResults, queryStatus) IN
       /\ fileReads' = cached.reads
       /\ logged' = cached.logs
       /\ lastOp' = Op("init", 0, 0, 0, cached.threw)
       /\ IF cached.threw
            THEN UNCHANGED <<staticQueryResults, isInitialised>>
            ELSE /\ staticQueryResults' = MapMerge(staticQueryResults, cached.value)
                 /\ isInitialised' = TRUE
  /\ sends' = <<>>
  /\ delivered' = [c \in Conns |-> <<>>]
  /\ UNCHANGED <<activePaths, pageResults, connState, activePath, rooms,
                 pageStatus, queryStatus, reading>>

\* a replay that forgets the page results
ReplayStaticOnly(sq, pr) == MessagesOf("staticQueryResult", MapValues(sq))

\* the messages of the `connection` handler: every static query result,
\* then every page result
ReplayMessages(sq, pr) ==
  MessagesOf("staticQueryResult", MapValues(sq))
    \o MessagesOf("pageQueryResult", MapValues(pr))

\* this.websocket.on(`connection`, s => ...)
connection(c) ==
  /\ isInitialised
  /\ connState[c] = "new"
  /\ connState' = [connState EXCEPT ![c] = "connected"]
  /\ activePath' = [activePath EXCEPT ![c] = Null]
  /\ sends' = ReplayMessages(staticQueryResults, pageResults)
  /\ delivered' = Broadcast(sends', Connected \cup {c})
  /\ lastOp' = Op("connection", c, 0, 0, FALSE)
  /\ fileReads' = <<>>
  /\ logged' = 0
  /\ UNCHANGED <<isInitialised, activePaths, pageResults, staticQueryResults,
                 rooms, pageStatus, queryStatus, reading>>

\* a leaveRoom that deletes the path without looking at the room
LeaveRoomAlwaysDeletes(rms, ap, path) == ap \ {path}

\* leaveRoom(path) of socket c. s.leave takes c out of the room; the path
\* is deleted from activePaths when the room is gone or empty. The room of
\* a null path never exists, and deleting null from the set changes nothing.
LeaveRoomRooms(rms, c, path) ==
  IF path \in Paths THEN [rms EXCEPT ![path] = @ \ {c}] ELSE rms

LeaveRoomActivePaths(rms, ap, path) ==
  IF path \in Paths /\ rms[path] # {} THEN ap ELSE ap \ {path}

\* a registerPath that reloads the cached page data every time
NeedsPageDataAlways(pr, path) == TRUE

\* registerPath consults getCachedPageData when the page results lack the path
NeedsPageData(pr, path) == ~MapHas(pr, path)

\* s.on(`registerPath`, path => ...)
registerPath(c, path) ==
  /\ connState[c] = "connected"
  /\ rooms' = [rooms EXCEPT ![path] = @ \cup {c}]
  /\ activePath' = [activePath EXCEPT ![c] = path]
  /\ activePaths' = activePaths \cup {path}
  /\ LET needs == NeedsPageData(pageResults, path)
         loaded == getCachedPageData(path, pageStatus[path])
         threw == needs /\ loaded.threw
     IN /\ fileReads' = IF needs THEN loaded.reads ELSE <<>>
        /\ logged' = IF needs THEN loaded.logs ELSE 0
        /\ lastOp' = Op("registerPath", c, path, 0, threw)
        /\ IF threw
             THEN /\ UNCHANGED pageResults
                  /\ sends' = <<>>
             ELSE /\ pageResults' = IF needs
                                      THEN MapSet(pageResults, path, loaded.value)
                                      ELSE pageResults
                  /\ sends' = <<Message("pageQueryResult",
                                        MapGet(pageResults', path))>>
  /\ delivered' = Broadcast(sends', Connected)
  /\ UNCHANGED <<isInitialised, staticQueryResults, connState, pageStatus,
                 queryStatus, reading>>

\* a disconnect handler that cleans up every room the socket had joined
disconnectLeavesEveryRoom(c) ==
  /\ connState[c] = "connected"
  /\ connState' = [connState EXCEPT ![c] = "disconnected"]
  /\ rooms' = [p \in Paths |-> rooms[p] \ {c}]
  /\ activePaths' = {p \in activePaths : c \notin rooms[p] \/ rooms'[p] # {}}
  /\ lastOp' = Op("disconnect", c, activePath[c], 0, FALSE)
  /\ sends' = <<>>
  /\ delivered' = [d \in Conns |-> <<>>]
  /\ fileReads' = <<>>
  /\ logged' = 0
  /\ UNCHANGED <<isInitialised, pageResults, staticQueryResults, activePath,
                 pageStatus, queryStatus, reading>>

\* the socket closes: socket.io takes it out of all its rooms, then runs
\* s.on(`disconnect`, ...), which calls leaveRoom(activePath)
disconnect(c) ==
  /\ connState[c] = "connected"
  /\ connState' = [connState EXCEPT ![c] = "disconnected"]
  /\ LET left == [p \in Paths |-> rooms[p] \ {c}] IN
       /\ rooms' = LeaveRoomRooms(left, c, activePath[c])
       /\ activePaths' = LeaveRoomActivePaths(rooms', activePaths, activePath[c])
  /\ lastOp' = Op("disconnect", c, activePath[c], 0, FALSE)
  /\ sends' = <<>>
  /\ delivered' = [d \in Conns |-> <<>>]
  /\ fileReads' = <<>>
  /\ logged' = 0
  /\ UNCHANGED <<isInitialised, pageResults, staticQueryResults, activePath,
                 pageStatus, queryStatus, reading>>

\* s.on(`unregisterPath`, path => leaveRoom(path))
unregisterPath(c, path) ==
  /\ connState[c] = "connected"
  /\ rooms' = LeaveRoomRooms(rooms, c, path)
  /\ activePaths' = LeaveRoomActivePaths(rooms', activePaths, path)
  /\ lastOp' = Op("unregisterPath", c, path, 0, FALSE)
  /\ sends' = <<>>
  /\ delivered' = [d \in Conns |-> <<>>]
  /\ fileReads' = <<>>
  /\ logged' = 0
  /\ UNCHANGED <<isInitialised, pageResults, staticQueryResults, connState,
                 activePath, pageStatus, queryStatus, reading>>

\* an emit that never sends
EmitSendsNothing(initialised, type, data) == <<>>

\* the websocket.send calls of emitStaticQueryData and of emitPageData
EmitSends(initialised, type, data) ==
  IF initialised THEN <<Message(type, data)>> ELSE <<>>

\* emitStaticQueryData(data)
emitStaticQueryData(id, result) ==
  LET data == QueryResult(id, result) IN
  /\ staticQueryResults' = MapSet(staticQueryResults, id, data)
  /\ sends' = EmitSends(isInitialised, "staticQueryResult", data)
  /\ delivered' = Broadcast(sends', Connected)
  /\ lastOp' = Op("emitStaticQueryData", 0, id, result, FALSE)
  /\ fileReads' = <<>>
  /\ logged' = 0
  /\ UNCHANGED <<isInitialised, activePaths, pageResults, connState, activePath,
                 rooms, pageStatus, queryStatus, reading>>

\* emitPageData(data)
emitPageData(id, result) ==
  LET data == QueryResult(id, result) IN
  /\ sends' = EmitSends(isInitialised, "pageQueryResult", data)
  /\ delivered' = Broadcast(sends', Connected)
  /\ pageResults' = MapSet(pageResults, id, data)
  /\ lastOp' = Op("emitPageData", 0, id, result, FALSE)
  /\ fileReads' = <<>>
  /\ logged' = 0
  /\ UNCHANGED <<isInitialised, activePaths, staticQueryResults, connState,
                 activePath, rooms, pageStatus, queryStatus, reading>>

Next ==
  \/ init
  \/ \E c \in Conns : connection(c)
  \/ \E c \in Conns, path \in Paths : registerPath(c, path)
  \/ \E c \in Conns, path \in Paths : unregisterPath(c, path)
  \/ \E c \in Conns : disconnect(c)
  \/ \E id \in Hashes, result \in FreshResults : emitStaticQueryData(id, result)
  \/ \E id \in Paths, result \in FreshResults : emitPageData(id, result)

Spec == Init /\ [][Next]_vars

\* ------------------------------------------------------------------ reads
\* The same handlers with the one blocking call made visible. registerPath
\* reaches fs.readFileSync when the page results lack the path and the page
\* has a data path; the call is synchronous, so the handler is on the stack
\* until the read returns and the event loop dispatches no other handler
\* meanwhile.
WillRead(pr, path, status) ==
  NeedsPageData(pr, path) /\ status \in {"nofile", "ok"}

\* a handler the event loop dispatches: none starts while a handler is
\* inside fs.readFileSync
Dispatched(handler) == reading = NotReading /\ handler

\* registerPath up to the call of fs.readFileSync
registerPathUntilRead(c, path) ==
  /\ reading = NotReading
  /\ connState[c] = "connected"
  /\ WillRead(pageResults, path, pageStatus[path])
  /\ rooms' = [rooms EXCEPT ![path] = @ \cup {c}]
  /\ activePath' = [activePath EXCEPT ![c] = path]
  /\ activePaths' = activePaths \cup {path}
  /\ reading' = [conn |-> c, path |-> path]
  /\ lastOp' = Op("readFileSync", c, path, 0, FALSE)
  /\ sends' = <<>>
  /\ delivered' = [d \in Conns |-> <<>>]
  /\ fileReads' = <<>>
  /\ logged' = 0
  /\ UNCHANGED <<isInitialised, pageResults, staticQueryResults, connState,
                 pageStatus, queryStatus>>

\* fs.readFileSync returns or throws, and registerPath runs to its end
registerPathAfterRead ==
  /\ reading # NotReading
  /\ LET c == reading.conn
         path == reading.path
         loaded == getCachedPageData(path, pageStatus[path])
     IN /\ fileReads' = loaded.reads
        /\ logged' = loaded.logs
        /\ lastOp' = Op("registerPath", c, path, 0, loaded.threw)
        /\ IF loaded.threw
             THEN /\ UNCHANGED pageResults
                  /\ sends' = <<>>
             ELSE /\ pageResults' = MapSet(pageResults, path, loaded.value)
                  /\ sends' = <<Message("pageQueryResult",
                                        MapGet(pageResults', path))>>
  /\ delivered' = Broadcast(sends', Connected)
  /\ reading' = NotReading
  /\ UNCHANGED <<isInitialised, activePaths, staticQueryResults, connState,
                 activePath, rooms, pageStatus, queryStatus>>

NextRead ==
  \/ Dispatched(init)
  \/ \E c \in Conns : Dispatched(connection(c))
  \/ \E c \in Conns, path \in Paths :
       /\ ~WillRead(pageResults, path, pageStatus[path])
       /\ Dispatched(registerPath(c, path))
  \/ \E c \in Conns, path \in Paths : registerPathUntilRead(c, path)
  \/ registerPathAfterRead
  \/ \E c \in Conns, path \in Paths : Dispatched(unregisterPath(c, path))
  \/ \E c \in Conns : Dispatched(disconnect(c))
  \/ \E id \in Hashes, result \in FreshResults :
       Dispatched(emitStaticQueryData(id, result))
  \/ \E id \in Paths, result \in FreshResults :
       Dispatched(emitPageData(id, result))

SpecRead == Init /\ [][NextRead]_vars

\* ------------------------------------------------------------------ claims
Count(seq, m) == Cardinality({i \in 1..Len(seq) : seq[i] = m})

PageMessage(p) == Message("pageQueryResult", MapGet(pageResults, p))
StaticMessage(h) == Message("staticQueryResult", MapGet(staticQueryResults, h))

\* the number of stored entries whose replay message is m
Expected(m) ==
  Cardinality({h \in MapKeys(staticQueryResults) : StaticMessage(h) = m})
    + Cardinality({p \in MapKeys(pageResults) : PageMessage(p) = m})

\* C1: a path is in activePaths iff at least one live connection is joined
\* to its room (a closed socket is in no room).
C1_ActiveIffJoined ==
  \A p \in Paths : p \in activePaths <=> rooms[p] # {}

\* C2: the replay of a connect is delivered to the new connection only; no
\* other client receives a message because of it.
C2_ReplayToNewOnly ==
  lastOp.op = "connection" =>
    \A c \in Conns \ {lastOp.conn} : delivered[c] = <<>>

\* C3: at the end of its connect handling the new client has received
\* exactly one staticQueryResult message per stored shared result and exactly
\* one pageQueryResult message per stored page result, with the stored entry
\* as payload, and nothing else.
C3_ReplayExactlyOnce ==
  lastOp.op = "connection" =>
    LET got == delivered[lastOp.conn] IN
      /\ \A h \in MapKeys(staticQueryResults) :
           Count(got, StaticMessage(h)) = Expected(StaticMessage(h))
      /\ \A p \in MapKeys(pageResults) :
           Count(got, PageMessage(p)) = Expected(PageMessage(p))
      /\ \A i \in 1..Len(got) : Count(got, got[i]) = Expected(got[i])

C3_Witness ==
  /\ lastOp.op = "connection"
  /\ \E h \in MapKeys(staticQueryResults) :
       MapGet(staticQueryResults, h).result \in FreshResults
  /\ MapKeys(pageResults) # {}
  /\ Len(delivered[lastOp.conn]) >= 2

\* C4: after unregisterPath(p) by a connection that had registered p, p is
\* out of activePaths when no other connection is in p's room and still in
\* activePaths when another one is.
C4_UnregisterKeepsOrFrees ==
  lastOp.op = "unregisterPath" =>
    /\ lastOp.conn \notin rooms[lastOp.id]
    /\ rooms[lastOp.id] = {} => lastOp.id \notin activePaths
    /\ rooms[lastOp.id] # {} => lastOp.id \in activePaths

C4_Witness ==
  /\ lastOp.op = "unregisterPath"
  /\ activePath[lastOp.conn] = lastOp.id
  /\ rooms[lastOp.id] # {}
  /\ lastOp.id \in activePaths
  /\ \E p \in Paths \ {lastOp.id} : p \notin activePaths

\* C5: registerPath(p) for a path absent from the metadata index (no page,
\* or no data path for the page) throws nothing out of the handler: it logs
\* and answers with an absent result.
C5_MissingMetadataNoThrow ==
  (lastOp.op = "registerPath" /\ pageStatus[lastOp.id] \in {"nopage", "nodata"}) =>
    /\ ~lastOp.threw
    /\ Len(sends) = 1

\* C6: registerPath never caches a placeholder: a key of the page results
\* always holds a result, never the undefined value.
C6_NoPlaceholder ==
  \A p \in Paths : MapHas(pageResults, p) => MapGet(pageResults, p) # Undefined

\* C7 as stated: every publishPageResult({id: p, result: r}) triggers at
\* least one broadcast message of type pageQueryResult carrying r.
C7_PublishAlwaysBroadcasts ==
  lastOp.op = "emitPageData" =>
    \E i \in 1..Len(sends) :
      sends[i] = Message("pageQueryResult", QueryResult(lastOp.id, lastOp.result))

\* C7 as amended: a publishPageResult({id: p, result: r}) made once the
\* manager is initialised sends exactly one pageQueryResult message with
\* payload {id: p, result: r}, which reaches every connected client; one
\* made before initialisation sends nothing.
C7_PublishBroadcastsOnceInitialised ==
  lastOp.op = "emitPageData" =>
    LET m == Message("pageQueryResult", QueryResult(lastOp.id, lastOp.result)) IN
      /\ isInitialised => /\ sends = <<m>>
                          /\ \A c \in Connected : delivered[c] = <<m>>
      /\ ~isInitialised => sends = <<>>

C7_Witness ==
  /\ lastOp.op = "emitPageData"
  /\ isInitialised
  /\ Connected # {}
  /\ \A c \in Connected : Len(delivered[c]) = 1

\* the entry of the path just published is the published one
C8_PublishedStored ==
  lastOp.op = "emitPageData" =>
    MapGet(pageResults, lastOp.id) = QueryResult(lastOp.id, lastOp.result)

\* a step that is no emitPageData for p leaves a published entry of p alone
C8_PublishedKept ==
  \A p \in Paths :
    (/\ MapHas(pageResults, p)
     /\ MapGet(pageResults, p) # Undefined
     /\ MapGet(pageResults, p).result \in FreshResults
     /\ ~(lastOp'.op = "emitPageData" /\ lastOp'.id = p))
    => /\ MapHas(pageResults', p)
       /\ MapGet(pageResults', p) = MapGet(pageResults, p)

\* C8: after publishPageResult({id: p, result: r}) the page results hold
\* exactly {id: p, result: r} under p, and a published entry is changed by
\* no step other than a publishPageResult for the same path: no connect,
\* registerPath, unregisterPath or disconnect replaces it.
C8_PublishOverwritesAndStays == [](C8_PublishedStored) /\ [][C8_PublishedKept]_vars

C8_Witness ==
  /\ lastOp.op = "registerPath"
  /\ pageStatus[lastOp.id] = "ok"
  /\ MapGet(pageResults, lastOp.id) \in
       {QueryResult(lastOp.id, r) : r \in FreshResults}

\* C9: a publishSharedResult(e) made after initialisation stores e under
\* e.id and delivers a staticQueryResult message with payload e to every
\* connected client.
C9_SharedStoredAndDelivered ==
  (lastOp.op = "emitStaticQueryData" /\ isInitialised) =>
    LET e == QueryResult(lastOp.id, lastOp.result) IN
      /\ MapGet(staticQueryResults, lastOp.id) = e
      /\ \A c \in Connected :
           delivered[c] = <<Message("staticQueryResult", e)>>

C9_Witness ==
  /\ lastOp.op = "emitStaticQueryData"
  /\ isInitialised
  /\ Cardinality(Connected) >= 2
  /\ \A c \in Connected : delivered[c] # <<>>

\* C10: for a path with a data path and a readable data file, a
\* registerPath(p) immediately followed by another registerPath(p), from any
\* connection, reads the data file at most once.
C10_TwoRegistersOneRead ==
  [][(/\ lastOp.op = "registerPath"
      /\ lastOp'.op = "registerPath"
      /\ lastOp'.id = lastOp.id
      /\ pageStatus[lastOp.id] = "ok")
     => Len(fileReads) + Len(fileReads') <= 1]_vars

C10_Witness ==
  /\ lastOp.op = "registerPath"
  /\ pageStatus[lastOp.id] = "ok"
  /\ fileReads = <<>>
  /\ MapGet(pageResults, lastOp.id) = QueryResult(lastOp.id, CachedResult)
  /\ Cardinality(rooms[lastOp.id]) >= 2

\* C11: a registerPath(p) that finds no entry for p and reads p's data file
\* leaves pageResults[p] = {id: p, result: <file content>} and the
\* registering client receives exactly one pageQueryResult message, with that
\* entry as payload.
C11_CacheFillAnswered ==
  (/\ lastOp.op = "registerPath"
   /\ pageStatus[lastOp.id] = "ok"
   /\ fileReads # <<>>) =>
     LET e == QueryResult(lastOp.id, CachedResult) IN
       /\ fileReads = <<[kind |-> "page", id |-> lastOp.id]>>
       /\ MapGet(pageResults, lastOp.id) = e
       /\ delivered[lastOp.conn] = <<Message("pageQueryResult", e)>>

C11_Witness ==
  /\ lastOp.op = "registerPath"
  /\ pageStatus[lastOp.id] = "ok"
  /\ fileReads # <<>>
  /\ Len(delivered[lastOp.conn]) = 1
  /\ Cardinality(Connected) >= 2

\* C12: the merge of init never overwrites an existing key: every static
\* query result present before init keeps its value, and a key that init
\* adds holds the content of that hash's data file.
C12_MergeKeepsFresh ==
  [][lastOp'.op = "init" =>
       /\ \A h \in MapKeys(staticQueryResults) :
            /\ MapHas(staticQueryResults', h)
            /\ MapGet(staticQueryResults', h) = MapGet(staticQueryResults, h)
       /\ \A h \in MapKeys(staticQueryResults') \ MapKeys(staticQueryResults) :
            /\ queryStatus[h] = "ok"
            /\ MapGet(staticQueryResults', h) = QueryResult(h, CachedResult)]_vars

C12_Witness ==
  /\ lastOp.op = "init"
  /\ isInitialised
  /\ \E h \in Hashes :
       /\ queryStatus[h] = "ok"
       /\ MapGet(staticQueryResults, h) \in {QueryResult(h, r) : r \in FreshResults}

\* C13: in both maps every key that is present maps to an entry whose id
\* equals the key.
C13_IdEqualsKey ==
  /\ \A p \in MapKeys(pageResults) :
       /\ MapGet(pageResults, p) # Undefined
       /\ MapGet(pageResults, p).id = p
  /\ \A h \in MapKeys(staticQueryResults) :
       /\ MapGet(staticQueryResults, h) # Undefined
       /\ MapGet(staticQueryResults, h).id = h

\* C14: a static query whose data file is not found is skipped by the batch
\* load of init: init does not throw and completes.
C14_MissingFileSkipped ==
  lastOp.op = "init" => (~lastOp.threw /\ isInitialised)

\* the events of the other connections and the publishes, as dispatched
OtherEvents ==
  \/ \E d \in Conns \ {reading.conn} : Dispatched(connection(d))
  \/ \E d \in Conns \ {reading.conn}, path \in Paths :
       Dispatched(registerPath(d, path))
  \/ \E d \in Conns \ {reading.conn}, path \in Paths :
       Dispatched(unregisterPath(d, path))
  \/ \E d \in Conns \ {reading.conn} : Dispatched(disconnect(d))
  \/ \E id \in Hashes, result \in FreshResults :
       Dispatched(emitStaticQueryData(id, result))
  \/ \E id \in Paths, result \in FreshResults :
       Dispatched(emitPageData(id, result))

\* C15: while the data file read of one connection's registerPath is
\* pending, an event of another connection or a publish can be processed.
C15_ReadDoesNotStall ==
  reading # NotReading => ENABLED OtherEvents

\* C16: a registerPath joins the new room and leaves no other, so a
\* connection that registers p1 and then p2 is in both rooms; its disconnect
\* handler leaves the room of its last path only, and a path p1 whose room
\* held that connection alone is still in activePaths after the disconnect.
C16_ReRegisterLeaksPath ==
  [][/\ lastOp'.op = "registerPath" =>
          /\ lastOp'.conn \in rooms'[lastOp'.id]
          /\ \A p \in Paths : rooms[p] \subseteq rooms'[p]
     /\ lastOp'.op = "disconnect" =>
          \A p1 \in Paths \ {activePath[lastOp'.conn]} :
            rooms[p1] = {lastOp'.conn} => p1 \in activePaths']_vars

C16_Witness ==
  /\ lastOp.op = "disconnect"
  /\ lastOp.id \in Paths
  /\ \A d \in Conns \ {lastOp.conn} : connState[d] = "new"
  /\ \E p1 \in Paths \ {lastOp.id} : p1 \in activePaths /\ rooms[p1] = {}
  /\ lastOp.id \notin activePaths

\* C17: a disconnect takes the connection out of the room of the last path
\* it registered, and that path is in activePaths afterwards exactly when
\* another connection is still in its room; the disconnect of a connection
\* that never registered a path changes neither activePaths nor any room.
C17_DisconnectLeavesLastPath ==
  [][lastOp'.op = "disconnect" =>
       LET c == lastOp'.conn
           p == activePath[c]
       IN /\ p \in Paths =>
               /\ c \notin rooms'[p]
               /\ p \in activePaths' <=> rooms'[p] # {}
               /\ activePaths \ {p} = activePaths' \ {p}
          /\ p = Null =>
               /\ activePaths' = activePaths
               /\ rooms' = rooms]_vars

C17_Witness ==
  /\ lastOp.op = "disconnect"
  /\ lastOp.id \in Paths
  /\ rooms[lastOp.id] # {}
  /\ lastOp.id \in activePaths

\* C18: no step removes a key from the page results or from the static
\* query results.
C18_StoreGrowsMonotonically ==
  [][/\ MapKeys(pageResults) \subseteq MapKeys(pageResults')
     /\ MapKeys(staticQueryResults) \subseteq MapKeys(staticQueryResults')]_vars

C18_Witness ==
  /\ lastOp.op = "init"
  /\ isInitialised
  /\ fileReads = <<>>
  /\ MapKeys(staticQueryResults) # {}
  /\ MapKeys(pageResults) # {}

\* a freshly computed entry of either map
FreshEntries(m) ==
  {i \in 1..Len(m) : m[i].value # Undefined /\ m[i].value.result \in FreshResults}

\* C19: a publish made before init sends nothing and stores the result; a
\* published entry then stays (with its key) until the same id is published
\* again, and every connecting client receives each published entry in its
\* replay.
C19_PublishedStateOk ==
  /\ (lastOp.op = "emitPageData" /\ ~isInitialised) =>
       /\ sends = <<>>
       /\ \A c \in Conns : delivered[c] = <<>>
       /\ MapGet(pageResults, lastOp.id) = QueryResult(lastOp.id, lastOp.result)
  /\ (lastOp.op = "emitStaticQueryData" /\ ~isInitialised) =>
       /\ sends = <<>>
       /\ \A c \in Conns : delivered[c] = <<>>
       /\ MapGet(staticQueryResults, lastOp.id) =
            QueryResult(lastOp.id, lastOp.result)
  /\ lastOp.op = "connection" =>
       /\ \A i \in FreshEntries(pageResults) :
            Count(delivered[lastOp.conn],
                  Message("pageQueryResult", pageResults[i].value)) >= 1
       /\ \A i \in FreshEntries(staticQueryResults) :
            Count(delivered[lastOp.conn],
                  Message("staticQueryResult", staticQueryResults[i].value)) >= 1

C19_PublishedStepOk ==
  /\ \A i \in FreshEntries(pageResults) :
       \/ lastOp'.op = "emitPageData" /\ lastOp'.id = pageResults[i].key
       \/ /\ MapHas(pageResults', pageResults[i].key)
          /\ MapGet(pageResults', pageResults[i].key) = pageResults[i].value
  /\ \A i \in FreshEntries(staticQueryResults) :
       \/ /\ lastOp'.op = "emitStaticQueryData"
          /\ lastOp'.id = staticQueryResults[i].key
       \/ /\ MapHas(staticQueryResults', staticQueryResults[i].key)
          /\ MapGet(staticQueryResults', staticQueryResults[i].key) =
               staticQueryResults[i].value

C19_EarlyPublishReplayed == [](C19_PublishedStateOk) /\ [][C19_PublishedStepOk]_vars

C19_Witness ==
  /\ lastOp.op = "init"
  /\ isInitialised
  /\ \A h \in Hashes : queryStatus[h] = "ok"
  /\ FreshEntries(staticQueryResults) # {}
  /\ FreshEntries(pageResults) # {}

\* an unregisterPath(p) by a connection that is not in p's room, while
\* another connection is, changes neither the rooms nor activePaths
C20_StrangerChangesNothing ==
  (/\ lastOp'.op = "unregisterPath"
   /\ lastOp'.conn \notin rooms[lastOp'.id]
   /\ rooms[lastOp'.id] # {})
  => (rooms' = rooms /\ activePaths' = activePaths)

\* C20: every path whose room has a joined connection is in activePaths (so
\* no unregisterPath or disconnect removes a path another connection is
\* still joined to), and an unregisterPath(p) by a connection that never
\* registered p changes nothing while others are joined.
C20_JoinedImpliesActive ==
  [](\A p \in Paths : rooms[p] # {} => p \in activePaths)
    /\ [][C20_StrangerChangesNothing]_vars

C20_Witness ==
  /\ lastOp.op = "unregisterPath"
  /\ activePath[lastOp.conn] = Null
  /\ rooms[lastOp.id] # {}
  /\ lastOp.id \in activePaths

====
